---- MODULE Spec2Model ----
(***************************************************************************)
(* LocalDB (src/db.js): a LocalStatement accumulates a query through       *)
(* chained calls and is consumed by execute() (insert / update / delete    *)
(* against an IndexedDB object store) or fetchAll() (getAll, then filter,  *)
(* sort, paginate, project).                                               *)
(*                                                                         *)
(* JavaScript values are tagged records, strings are sequences of          *)
(* one-character strings, and a call that throws yields "TypeError" (or    *)
(* the store's exception name) instead of a value.                         *)
(*                                                                         *)
(* The database is connected and the table exists (db.transaction and      *)
(* tx.objectStore do not throw). One statement is in flight at a time.     *)
(* Stored records all carry id, age, status and name, so compareValues is  *)
(* a consistent ordering and the stable sort has one outcome. where() is   *)
(* given arrays.                                                           *)
(***************************************************************************)
EXTENDS Integers, Sequences, FiniteSets, TLC

VARIABLES
  store,    \* the object store: [recs: records in key order, keyGen: next generated key]
  stmt,     \* the LocalStatement's fields
  promise,  \* the promise returned by execute() / fetchAll()
  request,  \* the IDBRequest the call issued
  raw,      \* request.result of getAll, as the array stands in memory
  hist,     \* history: which call ran, what the caller passed, the store at the call
  probe     \* a direct call of applyFilter / evaluateConditions and its outcome

vars == <<store, stmt, promise, request, raw, hist, probe>>

-----------------------------------------------------------------------------
(* Bounds of the model *)

\* keys the store's key generator may hand out
MaxKey == 4
\* largest argument passed to limit(n); the smallest is 0
MaxLimitArg == 2
\* largest argument passed to offset(n); the smallest is -1
MaxOffsetArg == 2

-----------------------------------------------------------------------------
(* JavaScript values *)

Undef == [t |-> "undef", n |-> 0, s |-> <<>>, a |-> <<>>]
Null == [t |-> "null", n |-> 0, s |-> <<>>, a |-> <<>>]
Num(n) == [t |-> "num", n |-> n, s |-> <<>>, a |-> <<>>]
Str(s) == [t |-> "str", n |-> 0, s |-> s, a |-> <<>>]
Arr(a) == [t |-> "arr", n |-> 0, s |-> <<>>, a |-> a]

\* the characters of the model's strings, in ascending UTF-16 code unit order
CodeOrder ==
  <<"!", "%", "0", "1", "2", "3", "4", "5", "6", "7", "8", "9", "<", "=", ">",
    "A", "D", "E", "H", "I", "K", "L", "N", "R", "T", "W",
    "a", "c", "d", "e", "f", "h", "i", "k", "l", "m", "n", "r", "s", "t", "u", "v", "w">>

CodeUnit(c) == CHOOSE i \in DOMAIN CodeOrder : CodeOrder[i] = c

\* String.prototype.toLowerCase on one character
LowerChar(c) ==
  CASE c = "A" -> "a" [] c = "D" -> "d" [] c = "E" -> "e" [] c = "H" -> "h"
    [] c = "I" -> "i" [] c = "K" -> "k" [] c = "L" -> "l" [] c = "N" -> "n"
    [] c = "R" -> "r" [] c = "T" -> "t" [] c = "W" -> "w"
    [] OTHER -> c

toLowerCase(s) == [i \in DOMAIN s |-> LowerChar(s[i])]

\* string literals of the source and of the documented scenarios
sActive == <<"a", "c", "t", "i", "v", "e">>
sInactive == <<"i", "n", "a", "c", "t", "i", "v", "e">>
sAlice == <<"A", "l", "i", "c", "e">>
sDiana == <<"D", "i", "a", "n", "a">>
sAdmin == <<"a", "d", "m", "i", "n">>
sUndefined == <<"u", "n", "d", "e", "f", "i", "n", "e", "d">>
opEq == <<"=">>
opNe == <<"!", "=">>
opLt == <<"<">>
opLe == <<"<", "=">>
opGt == <<">">>
opGe == <<">", "=">>
opIn == <<"i", "n">>
opWithin == <<"w", "i", "t", "h", "i", "n">>
opLike == <<"l", "i", "k", "e">>

Digits == <<"0", "1", "2", "3", "4", "5", "6", "7", "8", "9">>

RECURSIVE NatToString(_)
NatToString(n) ==
  IF n < 10 THEN <<Digits[n + 1]>>
  ELSE NatToString(n \div 10) \o <<Digits[(n % 10) + 1]>>

\* ToString of a value handed to RegExp.prototype.test (numbers of the model are >= 0)
jsToString(v) ==
  CASE v.t = "str" -> v.s
    [] v.t = "num" -> NatToString(v.n)
    [] v.t = "undef" -> sUndefined
    [] OTHER -> <<>>

\* a < b on strings: the first differing code unit decides, else the shorter is less
RECURSIVE StrLess(_, _)
StrLess(x, y) ==
  IF y = <<>> THEN FALSE
  ELSE IF x = <<>> THEN TRUE
  ELSE IF x[1] # y[1] THEN CodeUnit(x[1]) < CodeUnit(y[1])
  ELSE StrLess(Tail(x), Tail(y))

\* ToNumber: the model's non-empty strings are not numeric (NaN), "" is 0, and
\* its arrays have two elements (NaN)
IsNaN(v) == v.t = "undef" \/ (v.t = "str" /\ v.s # <<>>) \/ v.t = "arr"
ToNumber(v) == IF v.t = "num" THEN v.n ELSE 0

\* the relational operator x < y
Less(x, y) ==
  IF x.t = "str" /\ y.t = "str" THEN StrLess(x.s, y.s)
  ELSE ~IsNaN(x) /\ ~IsNaN(y) /\ ToNumber(x) < ToNumber(y)

\* x === y; two arrays are two objects and never identical
StrictEquals(x, y) ==
  /\ x.t = y.t
  /\ CASE x.t = "num" -> x.n = y.n
       [] x.t = "str" -> x.s = y.s
       [] x.t \in {"undef", "null"} -> TRUE
       [] OTHER -> FALSE

\* x <= y is !(y < x) unless an operand is NaN
LessEq(x, y) ==
  IF x.t = "str" /\ y.t = "str" THEN ~StrLess(y.s, x.s)
  ELSE ~IsNaN(x) /\ ~IsNaN(y) /\ ToNumber(x) <= ToNumber(y)

Bool(b) == IF b THEN "true" ELSE "false"

-----------------------------------------------------------------------------
(* applyFilter: src/db.js 324-346 *)

\* the index of the first "%" of s, 0 when there is none
RECURSIVE FirstPercent(_, _)
FirstPercent(s, i) ==
  IF i > Len(s) THEN 0
  ELSE IF s[i] = "%" THEN i
  ELSE FirstPercent(s, i + 1)

\* value.replace("%", ".*") as regular-expression tokens: a string pattern
\* replaces its first occurrence only; ".*" is the one wildcard token
replacePercent(s) ==
  LET i == FirstPercent(s, 1)
  IN  IF i = 0 THEN s
      ELSE SubSeq(s, 1, i - 1) \o <<".*">> \o SubSeq(s, i + 1, Len(s))

\* the tokens from index i on match str from position j on (flag "i")
RECURSIVE MatchAt(_, _, _, _)
MatchAt(tok, i, str, j) ==
  IF i > Len(tok) THEN TRUE
  ELSE IF tok[i] = ".*"
    THEN \E k \in j..(Len(str) + 1) : MatchAt(tok, i + 1, str, k)
  ELSE /\ j <= Len(str)
       /\ LowerChar(str[j]) = LowerChar(tok[i])
       /\ MatchAt(tok, i + 1, str, j + 1)

\* new RegExp(tokens, "i").test(str): an unanchored search
RegExpTest(tok, str) == \E j \in 1..(Len(str) + 1) : MatchAt(tok, 1, str, j)

\* Array.prototype.includes
includes(arr, x) == \E i \in DOMAIN arr : StrictEquals(arr[i], x)

applyFilter(compare, op, value) ==
  LET o == toLowerCase(op)
  IN  CASE o = opEq -> Bool(StrictEquals(compare, value))
        [] o = opNe -> Bool(~StrictEquals(compare, value))
        [] o = opLt -> Bool(Less(compare, value))
        [] o = opLe -> Bool(LessEq(compare, value))
        [] o = opGt -> Bool(Less(value, compare))
        [] o = opGe -> Bool(LessEq(value, compare))
        [] o \in {opIn, opWithin} -> Bool(value.t = "arr" /\ includes(value.a, compare))
        [] o = opLike ->
             IF value.t # "str" THEN "TypeError"
             ELSE Bool(RegExpTest(replacePercent(value.s), jsToString(compare)))
        [] OTHER -> "false"

-----------------------------------------------------------------------------
(* Records and condition trees *)

\* item[field]; a missing property reads as undefined
Get(item, field) == IF field \in DOMAIN item THEN item[field] ELSE Undef

Node(kind, field, op, value, children) ==
  [kind |-> kind, field |-> field, op |-> op, value |-> value, children |-> children]

\* [field, op, value]: an array
Leaf(field, op, value) == Node("array", field, op, value, <<>>)
\* {AND: [...]} and {OR: [...]}
And(children) == Node("AND", "", <<>>, Undef, children)
Or(children) == Node("OR", "", <<>>, Undef, children)
\* an object with neither key
PlainObject == Node("object", "", <<>>, Undef, <<>>)
\* a primitive element, as the three elements of an unwrapped [field, op, value]
FieldName(field) == Node("primitive", field, <<>>, Undef, <<>>)
OpToken(op) == Node("primitive", "", op, Undef, <<>>)
Primitive(value) == Node("primitive", "", <<>>, value, <<>>)
Flat(field, op, value) == <<FieldName(field), OpToken(op), Primitive(value)>>

-----------------------------------------------------------------------------
(* evaluateConditions: src/db.js 295-314 *)

\* this[name](compare, op, value): LocalStatement defines applyFilter; a name
\* it does not define reads as undefined, and calling undefined throws
invokeMethod(name, compare, op, value) ==
  IF name = "applyFilter" THEN applyFilter(compare, op, value) ELSE "TypeError"

RECURSIVE evaluateConditions(_, _, _)
RECURSIVE evaluateCondition(_, _)

\* the callback of conditions.map
evaluateCondition(item, condition) ==
  IF condition.kind = "array"
    THEN invokeMethod("applyFilters", Get(item, condition.field), condition.op,
                      condition.value)
  ELSE IF condition.kind = "AND"
    THEN evaluateConditions(item, condition.children, FALSE)
  ELSE IF condition.kind = "OR"
    THEN evaluateConditions(item, condition.children, TRUE)
  ELSE "false"

evaluateConditions(item, conditions, isOr) ==
  LET results == [i \in DOMAIN conditions |-> evaluateCondition(item, conditions[i])]
  IN  IF \E i \in DOMAIN results : results[i] \notin {"true", "false"}
        THEN "TypeError"
      ELSE IF isOr THEN Bool(\E i \in DOMAIN results : results[i] = "true")
      ELSE Bool(\A i \in DOMAIN results : results[i] = "true")

-----------------------------------------------------------------------------
(* compareValues: src/db.js 355-374 *)

SORT_ASC == "asc"
SORT_DESC == "desc"

\* String.prototype.localeCompare on the model's strings (letters only): the
\* letters decide, ignoring case
localeCompare(x, y) ==
  IF StrLess(toLowerCase(x), toLowerCase(y)) THEN -1
  ELSE IF StrLess(toLowerCase(y), toLowerCase(x)) THEN 1
  ELSE 0

\* x - y; NaN is returned as 0, which is how Array.prototype.sort reads it
Minus(x, y) == IF IsNaN(x) \/ IsNaN(y) THEN 0 ELSE ToNumber(x) - ToNumber(y)

compareValues(a, b, sortField, sortDir) ==
  IF sortField \notin DOMAIN a \/ sortField \notin DOMAIN b THEN 0
  ELSE LET valA == a[sortField]
           valB == b[sortField]
       IN  IF valA.t = "str" /\ valB.t = "str"
             THEN IF sortDir = SORT_ASC THEN localeCompare(valA.s, valB.s)
                  ELSE localeCompare(valB.s, valA.s)
           ELSE IF sortDir = SORT_ASC THEN Minus(valA, valB) ELSE Minus(valB, valA)

\* Array.prototype.sort is stable: x goes behind every element it does not precede
RECURSIVE InsertSorted(_, _, _, _)
InsertSorted(sorted, x, sortField, sortDir) ==
  IF sorted = <<>> THEN <<x>>
  ELSE IF compareValues(sorted[Len(sorted)], x, sortField, sortDir) <= 0
    THEN Append(sorted, x)
  ELSE Append(InsertSorted(SubSeq(sorted, 1, Len(sorted) - 1), x, sortField, sortDir),
              sorted[Len(sorted)])

RECURSIVE SortBy(_, _, _)
SortBy(results, sortField, sortDir) ==
  IF results = <<>> THEN <<>>
  ELSE InsertSorted(SortBy(SubSeq(results, 1, Len(results) - 1), sortField, sortDir),
                    results[Len(results)], sortField, sortDir)

-----------------------------------------------------------------------------
(* the onsuccess handler of fetchAll: src/db.js 249-281 *)

Min(x, y) == IF x < y THEN x ELSE y
Max(x, y) == IF x > y THEN x ELSE y

\* Array.prototype.slice(start, end) for start >= 0; end = -1 stands for undefined
slice(arr, start, end) ==
  LET k == Min(start, Len(arr))
      final == IF end = -1 THEN Len(arr) ELSE Min(end, Len(arr))
      count == Max(final - k, 0)
  IN  [i \in 1..count |-> arr[k + i]]

\* sliceEnd with the offset left out of the end index
sliceEndLimitOnly(st) ==
  IF st.resultLimit.t = "num" /\ st.resultLimit.n # 0 THEN st.resultLimit.n ELSE -1

\* this.resultLimit ? this.resultOffset + this.resultLimit : undefined
sliceEnd(st) ==
  IF st.resultLimit.t = "num" /\ st.resultLimit.n # 0
    THEN st.resultOffset + st.resultLimit.n
  ELSE -1

\* selectedFields.reduce(...): the requested keys the item has
projectItem(item, fields) ==
  [key \in {fields[i] : i \in DOMAIN fields} \cap DOMAIN item |-> item[key]]

\* the filter stage ran: conditions.length > 0
Filters(st) == Len(st.conditions) > 0
\* the projection stage runs: selectedFields && selectedFields[0] !== "*"
Projects(st) ==
  /\ ~st.selectedFields.isNull
  /\ (st.selectedFields.fields = <<>> \/ st.selectedFields.fields[1] # "*")

\* an item's filter callback throws
FilterThrows(result, st) ==
  /\ Filters(st)
  /\ \E i \in DOMAIN result :
       evaluateConditions(result[i], st.conditions, FALSE) \notin {"true", "false"}

Keeps(st, item) == evaluateConditions(item, st.conditions, FALSE) = "true"

\* results after the filter stage
filtered(result, st) ==
  IF Filters(st) THEN SelectSeq(result, LAMBDA item : Keeps(st, item)) ELSE result

\* results after the in-place sort
sorted(result, st) ==
  IF st.sortField # "" THEN SortBy(filtered(result, st), st.sortField, st.sortDir)
  ELSE filtered(result, st)

paginated(result, st) == slice(sorted(result, st), st.resultOffset, sliceEnd(st))

projected(result, st) ==
  IF Projects(st)
    THEN [i \in DOMAIN paginated(result, st) |->
            projectItem(paginated(result, st)[i], st.selectedFields.fields)]
  ELSE paginated(result, st)

\* resultAfter with a pagination that cuts request.result itself (splice for slice)
resultAfterSplice(result, st) ==
  IF FilterThrows(result, st) \/ Filters(st) THEN result ELSE paginated(result, st)

\* request.result once the handler is through: results.sort sorts in place, and
\* without a filter stage results is request.result itself
resultAfter(result, st) ==
  IF ~Filters(st) /\ st.sortField # "" THEN SortBy(result, st.sortField, st.sortDir)
  ELSE result

-----------------------------------------------------------------------------
(* Inputs of the model *)

Item(id, age, status, name) ==
  [id |-> Num(id), age |-> Num(age), status |-> Str(status), name |-> Str(name)]

\* the values of the README's insert example: no id, the store generates the key
NewUser == [age |-> Num(20), status |-> Str(sActive), name |-> Str(sDiana)]
\* values carrying their key
User2 == Item(2, 25, sInactive, sAlice)

\* the records of the documented scenarios
Scenario == <<Item(1, 17, sActive, sAlice), Item(2, 20, sActive, sDiana),
              Item(3, 25, sInactive, sDiana)>>

NoValues == [isNull |-> TRUE, obj |-> <<>>]
Values(obj) == [isNull |-> FALSE, obj |-> obj]
ValuesPool == {Values(NewUser), Values(User2)}

NoFields == [isNull |-> TRUE, fields |-> <<>>]
Fields(fields) == [isNull |-> FALSE, fields |-> fields]

\* arguments of select(): arrays, a single string, anything else
SelectArgs ==
  {[t |-> "array", fields |-> <<"*">>], [t |-> "array", fields |-> <<"id", "name">>],
   [t |-> "string", fields |-> <<"name">>], [t |-> "other", fields |-> <<>>]}

AdultActive == <<Leaf("age", opGe, Num(18)), Leaf("status", opEq, Str(sActive))>>
ActiveFlat == Flat("status", opEq, Str(sActive))
DeleteFlat == Flat("id", opEq, Num(2))
Nested ==
  <<And(<<Leaf("status", opEq, Str(sActive)),
          Or(<<Leaf("name", opEq, Str(sAlice)), Leaf("name", opEq, Str(sDiana))>>)>>)>>

\* arguments of where()
ConditionsPool ==
  {<<>>, AdultActive, ActiveFlat, DeleteFlat, Nested, <<And(<<>>)>>, <<Or(<<>>), PlainObject>>}

SortFields == {"age", "status"}
\* the direction argument of orderBy; "omitted" takes the parameter's default
Directions == {"asc", "desc", "omitted"}

-----------------------------------------------------------------------------
(* LocalStatement: src/db.js 85-203 *)

\* the constructor
NewStatement ==
  [action |-> "null", values |-> NoValues, conditions |-> <<>>,
   selectedFields |-> NoFields, sortField |-> "", sortDir |-> SORT_ASC,
   resultLimit |-> Null, resultOffset |-> 0]

NoPromise == [state |-> "none", value |-> Undef, results |-> <<>>, reason |-> ""]
NoRequest == [op |-> "none", values |-> NoValues, key |-> Undef, state |-> "none",
              handler |-> "none"]
NoHist == [call |-> "none", direction |-> "none", before |-> <<>>]
NoProbe == [fn |-> "none"]

\* a promise settles once: resolve and reject act on a pending promise only
resolve(p, value, results) ==
  IF p.state = "pending"
    THEN [state |-> "fulfilled", value |-> value, results |-> results, reason |-> ""]
  ELSE p

reject(p, reason) ==
  IF p.state = "pending"
    THEN [state |-> "rejected", value |-> Undef, results |-> <<>>, reason |-> reason]
  ELSE p

Pending == [state |-> "pending", value |-> Undef, results |-> <<>>, reason |-> ""]

\* the caller is still chaining configuration calls
Building == hist.call = "none"

\* the model's callers call one action method per statement, and give sort,
\* page and projection options to queries only
NoAction == stmt.action = "null"
NoQueryOptions ==
  /\ stmt.selectedFields.isNull
  /\ stmt.sortField = ""
  /\ stmt.resultLimit = Null
  /\ stmt.resultOffset = 0
IsQuery == stmt.action \in {"null", "select"} /\ stmt.values.isNull

Unchanged == UNCHANGED <<store, promise, request, raw, probe>>

insert(values) ==
  /\ Building /\ NoAction /\ NoQueryOptions
  /\ stmt' = [stmt EXCEPT !.action = "insert", !.values = values]
  /\ UNCHANGED hist
  /\ Unchanged

select(arg) ==
  /\ Building /\ NoAction /\ IsQuery
  /\ stmt' = [stmt EXCEPT !.action = "select",
                          !.selectedFields =
                             IF arg.t \in {"array", "string"} THEN Fields(arg.fields)
                             ELSE Fields(<<"*">>)]
  /\ UNCHANGED hist
  /\ Unchanged

update(values) ==
  /\ Building /\ NoAction /\ NoQueryOptions
  /\ stmt' = [stmt EXCEPT !.action = "update", !.values = values]
  /\ UNCHANGED hist
  /\ Unchanged

delete ==
  /\ Building /\ NoAction /\ NoQueryOptions
  /\ stmt' = [stmt EXCEPT !.action = "delete"]
  /\ UNCHANGED hist
  /\ Unchanged

bindValues(values) ==
  /\ Building /\ NoQueryOptions /\ stmt.action # "select"
  /\ stmt' = [stmt EXCEPT !.values = values]
  /\ UNCHANGED hist
  /\ Unchanged

where(conditions) ==
  /\ Building
  /\ stmt' = [stmt EXCEPT !.conditions = conditions]
  /\ UNCHANGED hist
  /\ Unchanged

\* the direction parameter, with its default
directionParameter(direction) == IF direction = "omitted" THEN SORT_ASC ELSE direction

\* line 179 assigns LocalStatement.SORT_DESC.toLowerCase(), whatever the parameter
orderBy(field, direction) ==
  /\ Building /\ IsQuery
  /\ stmt' = [stmt EXCEPT !.sortField = field, !.sortDir = SORT_DESC]
  /\ hist' = [hist EXCEPT !.direction = directionParameter(direction)]
  /\ Unchanged

limit(n) ==
  /\ Building /\ IsQuery
  /\ stmt' = [stmt EXCEPT !.resultLimit = Num(Max(1, n))]
  /\ UNCHANGED hist
  /\ Unchanged

offset(n) ==
  /\ Building /\ IsQuery
  /\ stmt' = [stmt EXCEPT !.resultOffset = Max(0, n)]
  /\ UNCHANGED hist
  /\ Unchanged

-----------------------------------------------------------------------------
(* The object store behind store.add / put / delete / getAll *)

EmptyStore == [recs |-> <<>>, keyGen |-> 1]
ScenarioStore == [recs |-> Scenario, keyGen |-> 4]

HasKey(recs, k) == \E i \in DOMAIN recs : recs[i].id.n = k

\* the records without key k, then item at its place in key order
putRecord(recs, item) ==
  LET k == item.id.n
      rest == SelectSeq(recs, LAMBDA r : r.id.n # k)
  IN  SelectSeq(rest, LAMBDA r : r.id.n < k) \o <<item>> \o
      SelectSeq(rest, LAMBDA r : r.id.n > k)

deleteRecord(recs, k) == SelectSeq(recs, LAMBDA r : r.id.n # k)

\* the key of a stored value: its id, else the next generated key
keyFor(obj, st) == IF "id" \in DOMAIN obj THEN obj.id.n ELSE st.keyGen

\* the value as stored: the generated key is written to the key path
withKey(obj, k) == [f \in DOMAIN obj \cup {"id"} |-> IF f = "id" THEN Num(k) ELSE obj[f]]

\* the store after a successful add or put of obj
stored(st, obj) ==
  LET k == keyFor(obj, st)
  IN  [recs |-> putRecord(st.recs, withKey(obj, k)),
       keyGen |-> IF k >= st.keyGen THEN k + 1 ELSE st.keyGen]

-----------------------------------------------------------------------------
(* execute: src/db.js 210-236 *)

Request(op, values, key) ==
  [op |-> op, values |-> values, key |-> key, state |-> "pending", handler |-> "none"]

\* the default branch: reject("Invalid action"); no request is assigned, so
\* request.onsuccess = ... throws and the Promise constructor rejects again
invalidActionMissingReject ==
  [request |-> NoRequest, promise |-> reject(Pending, "TypeError")]

invalidAction ==
  [request |-> NoRequest,
   promise |-> reject(reject(Pending, "Invalid action"), "TypeError")]

\* the switch on this.action: the request issued ("none" when the executor threw
\* or took the default branch) and the promise as the executor leaves it
executor(st) ==
  CASE st.action = "insert" ->
         IF st.values.isNull
           THEN [request |-> NoRequest, promise |-> reject(Pending, "DataError")]
         ELSE [request |-> Request("add", st.values, Undef), promise |-> Pending]
    [] st.action = "update" ->
         IF st.values.isNull
           THEN [request |-> NoRequest, promise |-> reject(Pending, "DataError")]
         ELSE [request |-> Request("put", st.values, Undef), promise |-> Pending]
    [] st.action = "delete" ->
         IF st.values.isNull
           THEN [request |-> NoRequest, promise |-> reject(Pending, "TypeError")]
         ELSE IF "id" \notin DOMAIN st.values.obj
           THEN [request |-> NoRequest, promise |-> reject(Pending, "DataError")]
         ELSE [request |-> Request("delete", NoValues, st.values.obj.id), promise |-> Pending]
    [] OTHER -> invalidAction

\* the key generator stays within MaxKey
CanStore(st) ==
  \/ st.action \notin {"insert", "update"}
  \/ st.values.isNull
  \/ "id" \in DOMAIN st.values.obj
  \/ store.keyGen <= MaxKey

execute ==
  /\ Building /\ CanStore(stmt)
  /\ request' = executor(stmt).request
  /\ promise' = executor(stmt).promise
  /\ hist' = [hist EXCEPT !.call = "execute", !.before = store.recs]
  /\ UNCHANGED <<store, stmt, raw, probe>>

\* add fails on a key the store holds
Constrained(req) == req.op = "add" /\ HasKey(store.recs, keyFor(req.values.obj, store))

\* request.onsuccess = () => resolve(request.result)
executeOnSuccess ==
  /\ request.state = "pending" /\ request.op \in {"add", "put", "delete"}
  /\ ~Constrained(request)
  /\ store' = IF request.op = "delete"
                THEN [store EXCEPT !.recs = deleteRecord(store.recs, request.key.n)]
              ELSE stored(store, request.values.obj)
  /\ promise' = resolve(promise,
                        IF request.op = "delete" THEN Undef
                        ELSE Num(keyFor(request.values.obj, store)), <<>>)
  /\ request' = [request EXCEPT !.state = "success", !.handler = "returned"]
  /\ UNCHANGED <<stmt, raw, hist, probe>>

\* request.onerror = () => reject(request.error)
executeOnError ==
  /\ request.state = "pending" /\ request.op \in {"add", "put", "delete"}
  /\ promise' = reject(promise, IF Constrained(request) THEN "ConstraintError"
                                ELSE "UnknownError")
  /\ request' = [request EXCEPT !.state = "error", !.handler = "returned"]
  /\ UNCHANGED <<store, stmt, raw, hist, probe>>

-----------------------------------------------------------------------------
(* fetchAll: src/db.js 243-285 *)

fetchAll ==
  /\ Building
  /\ request' = Request("getAll", NoValues, Undef)
  /\ promise' = Pending
  /\ hist' = [hist EXCEPT !.call = "fetchAll", !.before = store.recs]
  /\ UNCHANGED <<store, stmt, raw, probe>>

\* request.onsuccess: filter, sort, paginate, project, resolve; an exception
\* thrown by the handler leaves the promise as it is
fetchOnSuccess ==
  /\ request.state = "pending" /\ request.op = "getAll"
  /\ raw' = resultAfter(store.recs, stmt)
  /\ promise' = IF FilterThrows(store.recs, stmt) THEN promise
                ELSE resolve(promise, Undef, projected(store.recs, stmt))
  /\ request' = [request EXCEPT !.state = "success",
                                !.handler = IF FilterThrows(store.recs, stmt) THEN "threw"
                                            ELSE "returned"]
  /\ UNCHANGED <<store, stmt, hist, probe>>

\* request.onerror = () => reject(request.error)
fetchOnError ==
  /\ request.state = "pending" /\ request.op = "getAll"
  /\ promise' = reject(promise, "UnknownError")
  /\ request' = [request EXCEPT !.state = "error", !.handler = "returned"]
  /\ UNCHANGED <<store, stmt, raw, hist, probe>>

\* LocalDB.prepare: src/db.js 62-64; the caller turns to its next statement
\* once the call before is through
prepare ==
  /\ hist.call # "none" /\ request.state # "pending"
  /\ stmt' = NewStatement
  /\ promise' = NoPromise
  /\ request' = NoRequest
  /\ raw' = <<>>
  /\ hist' = NoHist
  /\ UNCHANGED <<store, probe>>

-----------------------------------------------------------------------------
(* The program *)

Init ==
  /\ store \in {EmptyStore, ScenarioStore}
  /\ stmt = NewStatement
  /\ promise = NoPromise
  /\ request = NoRequest
  /\ raw = <<>>
  /\ hist = NoHist
  /\ probe = NoProbe

Next ==
  \/ \E values \in ValuesPool : insert(values)
  \/ \E arg \in SelectArgs : select(arg)
  \/ \E values \in ValuesPool : update(values)
  \/ delete
  \/ \E values \in ValuesPool : bindValues(values)
  \/ \E conditions \in ConditionsPool : where(conditions)
  \/ \E field \in SortFields, direction \in Directions : orderBy(field, direction)
  \/ \E n \in 0..MaxLimitArg : limit(n)
  \/ \E n \in (-1)..MaxOffsetArg : offset(n)
  \/ execute
  \/ executeOnSuccess
  \/ executeOnError
  \/ fetchAll
  \/ fetchOnSuccess
  \/ fetchOnError
  \/ prepare

Spec == Init /\ [][Next]_vars

-----------------------------------------------------------------------------
(* applyFilter and evaluateConditions called on their own *)

sPercentAnPercent == <<"%", "a", "n", "%">>
sPercentAn == <<"%", "a", "n">>
sAn == <<"a", "n">>
sUpperLike == <<"L", "I", "K", "E">>
sUpperIn == <<"I", "N">>
sUnknownOp == <<"=", "=">>

\* the arrays of the model have two elements (ToNumber of such an array is NaN)
FilterCompares == {Str(sAlice), Str(sDiana), Str(sActive), Num(17), Num(20), Undef}
FilterOps ==
  {opEq, opNe, opLt, opLe, opGt, opGe, opIn, opWithin, opLike, sUpperLike, sUpperIn,
   sUnknownOp}
FilterValues ==
  {Str(sPercentAnPercent), Str(sPercentAn), Str(sAn), Str(sActive), Str(sDiana),
   Num(18), Num(20), Arr(<<Num(17), Str(sActive)>>)}

InitFilter ==
  /\ store = EmptyStore
  /\ stmt = NewStatement
  /\ promise = NoPromise
  /\ request = NoRequest
  /\ raw = <<>>
  /\ hist = NoHist
  /\ probe \in [fn : {"applyFilter"}, compare : FilterCompares, op : FilterOps,
                value : FilterValues, out : {"none"}]

callApplyFilter ==
  /\ probe.fn = "applyFilter" /\ probe.out = "none"
  /\ probe' = [probe EXCEPT !.out = applyFilter(probe.compare, probe.op, probe.value)]
  /\ UNCHANGED <<store, stmt, promise, request, raw, hist>>

NextFilter == callApplyFilter

SpecFilter == InitFilter /\ [][NextFilter]_vars

sHR == <<"H", "R">>
sIT == <<"I", "T">>
sUser == <<"u", "s", "e", "r">>
Admin == [role |-> Str(sAdmin), dept |-> Str(sHR)]
User == [role |-> Str(sUser), dept |-> Str(sHR)]

RoleIsAdmin == Leaf("role", opEq, Str(sAdmin))
DeptIsIT == Leaf("dept", opEq, Str(sIT))
DeptIsHR == Leaf("dept", opEq, Str(sHR))

EvalItems == {Admin, User} \cup {Scenario[i] : i \in DOMAIN Scenario}
EvalConditions ==
  {<<>>, <<And(<<>>)>>, <<Or(<<>>)>>, <<And(<<>>), Or(<<>>)>>, <<Or(<<>>), And(<<>>)>>,
   <<And(<<Or(<<>>)>>)>>, <<Or(<<And(<<>>)>>)>>, <<Or(<<Or(<<>>), And(<<>>)>>)>>,
   <<PlainObject>>, <<And(<<>>), PlainObject>>,
   <<RoleIsAdmin>>, <<RoleIsAdmin, DeptIsHR>>, <<DeptIsIT, DeptIsHR>>,
   <<And(<<RoleIsAdmin, Or(<<DeptIsIT, DeptIsHR>>)>>)>>,
   AdultActive, ActiveFlat}

InitEval ==
  /\ store = EmptyStore
  /\ stmt = NewStatement
  /\ promise = NoPromise
  /\ request = NoRequest
  /\ raw = <<>>
  /\ hist = NoHist
  /\ probe \in [fn : {"evaluateConditions"}, item : EvalItems,
                conditions : EvalConditions, isOr : BOOLEAN, out : {"none"}]

callEvaluateConditions ==
  /\ probe.fn = "evaluateConditions" /\ probe.out = "none"
  /\ probe' = [probe EXCEPT
                 !.out = evaluateConditions(probe.item, probe.conditions, probe.isOr)]
  /\ UNCHANGED <<store, stmt, promise, request, raw, hist>>

NextEval == callEvaluateConditions

SpecEval == InitEval /\ [][NextEval]_vars

-----------------------------------------------------------------------------
(* Properties *)

FetchSucceeded == hist.call = "fetchAll" /\ request.state = "success"
FetchFulfilled == hist.call = "fetchAll" /\ promise.state = "fulfilled"
PlainQuery ==
  /\ stmt.sortField = ""
  /\ stmt.resultLimit = Null
  /\ stmt.resultOffset = 0
  /\ ~Projects(stmt)

\* the comparison a leaf states, by applyFilter
LeafTrue(item, c) == applyFilter(Get(item, c.field), c.op, c.value) = "true"

IsLeafList(conditions) == \A i \in DOMAIN conditions : conditions[i].kind = "array"

\* C1: once getAll has succeeded for a where() list of leaf conditions (no sort,
\* page or projection), the promise is fulfilled with exactly the stored records
\* for which every leaf comparison is true, in stored order.
C1_LeafListFilters ==
  (FetchSucceeded /\ IsLeafList(stmt.conditions) /\ PlainQuery) =>
    /\ promise.state = "fulfilled"
    /\ promise.results =
         SelectSeq(hist.before,
                   LAMBDA item : \A i \in DOMAIN stmt.conditions :
                                    LeafTrue(item, stmt.conditions[i]))

\* C2: after orderBy(field, direction), a fulfilled fetchAll holds its results in
\* the direction the caller supplied: no record is followed by one that precedes
\* it in that direction.
C2_OrderedAsRequested ==
  (FetchFulfilled /\ stmt.sortField # "" /\ ~Projects(stmt)) =>
    \A i \in 1..(Len(promise.results) - 1) :
      compareValues(promise.results[i], promise.results[i + 1], stmt.sortField,
                    hist.direction) <= 0

RECURSIVE NodeTrue(_, _)
NodeTrue(item, c) ==
  CASE c.kind = "array" -> LeafTrue(item, c)
    [] c.kind = "AND" -> \A i \in DOMAIN c.children : NodeTrue(item, c.children[i])
    [] c.kind = "OR" -> \E i \in DOMAIN c.children : NodeTrue(item, c.children[i])
    [] OTHER -> FALSE

IsTree(c) == c.kind \in {"array", "AND", "OR"}

\* C4: evaluateConditions on a list of condition trees is true iff every tree
\* is true (iff some tree is true when called for an OR), where an AND node is
\* true iff all its children are and an OR node iff one of them is.
C4_TreeSemantics ==
  (/\ probe.fn = "evaluateConditions"
   /\ probe.out # "none"
   /\ \A i \in DOMAIN probe.conditions : IsTree(probe.conditions[i])) =>
    probe.out =
      IF probe.isOr
        THEN Bool(\E i \in DOMAIN probe.conditions :
                     NodeTrue(probe.item, probe.conditions[i]))
      ELSE Bool(\A i \in DOMAIN probe.conditions :
                   NodeTrue(probe.item, probe.conditions[i]))

\* str contains sub, ignoring case
ContainsIgnoreCase(str, sub) ==
  \E i \in 0..(Len(str) - Len(sub)) :
    \A j \in 1..Len(sub) : LowerChar(str[i + j]) = LowerChar(sub[j])

\* "%s%" with no "%" in s
IsContainsPattern(p) ==
  /\ Len(p) >= 2
  /\ p[1] = "%" /\ p[Len(p)] = "%"
  /\ \A i \in 2..(Len(p) - 1) : p[i] # "%"

\* C5: a like comparison of a string with the pattern "%s%" is true exactly when
\* the string contains s, ignoring case.
C5_LikeContains ==
  (/\ probe.fn = "applyFilter"
   /\ probe.out # "none"
   /\ toLowerCase(probe.op) = opLike
   /\ probe.compare.t = "str"
   /\ probe.value.t = "str"
   /\ IsContainsPattern(probe.value.s)) =>
    probe.out =
      Bool(ContainsIgnoreCase(probe.compare.s,
                              SubSeq(probe.value.s, 2, Len(probe.value.s) - 1)))

\* C6 as stated: once getAll has succeeded and the handler is through, the
\* sequence the store returned is as it was returned.
C6_RawUntouched == FetchSucceeded => raw = hist.before

IsPermutation(x, y) ==
  /\ Len(x) = Len(y)
  /\ \E f \in [DOMAIN x -> DOMAIN x] :
       /\ \A i, j \in DOMAIN x : i # j => f[i] # f[j]
       /\ \A i \in DOMAIN x : x[i] = y[f[i]]

\* C6 amended: the handler changes no record and neither adds to nor removes
\* from the sequence the store returned; it leaves it in the returned order
\* unless a sort field is set and the filter stage did not run, the one case in
\* which the sort reorders that sequence itself. The stored records stay.
C6_RawKeepsRecords ==
  FetchSucceeded =>
    /\ IsPermutation(raw, hist.before)
    /\ (Filters(stmt) \/ stmt.sortField = "") => raw = hist.before
    /\ store.recs = hist.before

\* the sort ran on the store's sequence, and a limit and a filter on a sorted
\* query left it whole
C6_Witness ==
  /\ FetchSucceeded
  /\ stmt.sortField # ""
  /\ raw # hist.before
  /\ stmt.resultLimit = Num(1)
  /\ Len(raw) = 3

\* C7: from the call of execute() on, a statement whose action is none of
\* insert, update, delete has its promise rejected with "Invalid action" (and
\* so never fulfilled), no request issued, and the stored records as they were.
C7_InvalidActionRejected ==
  (hist.call = "execute" /\ stmt.action \notin {"insert", "update", "delete"}) =>
    /\ promise.state = "rejected"
    /\ promise.reason = "Invalid action"
    /\ request.op = "none"
    /\ store.recs = hist.before

\* execute() ran on a select statement over a table that holds records
C7_Witness ==
  /\ hist.call = "execute"
  /\ stmt.action = "select"
  /\ store.recs # <<>>
  /\ promise.state = "rejected"

IsFlat(conditions) ==
  /\ Len(conditions) = 3
  /\ \A i \in DOMAIN conditions : conditions[i].kind = "primitive"

\* C8: execute() on delete().where(["id", "=", k]) over a table that holds a
\* record with id k, once settled without a failure of the store, has the
\* promise fulfilled, and the table holds the records it held before but for
\* that one.
C8_DeleteByWhere ==
  (/\ hist.call = "execute"
   /\ stmt.action = "delete"
   /\ stmt.values.isNull
   /\ IsFlat(stmt.conditions)
   /\ stmt.conditions[1].field = "id"
   /\ stmt.conditions[2].op = opEq
   /\ HasKey(hist.before, stmt.conditions[3].value.n)
   /\ promise.state # "pending"
   /\ promise.reason # "UnknownError") =>
    /\ promise.state = "fulfilled"
    /\ store.recs = deleteRecord(hist.before, stmt.conditions[3].value.n)

\* C9: a fetchAll whose where() was given one unwrapped [field, op, value] (no
\* sort, page or projection) is fulfilled with exactly the records for which
\* that comparison is true.
C9_FlatCondition ==
  (FetchSucceeded /\ IsFlat(stmt.conditions) /\ PlainQuery) =>
    /\ promise.state = "fulfilled"
    /\ promise.results =
         SelectSeq(hist.before,
                   LAMBDA item : applyFilter(Get(item, stmt.conditions[1].field),
                                             stmt.conditions[2].op,
                                             stmt.conditions[3].value) = "true")

\* C10: once the getAll request of a fetchAll() has completed, the promise is
\* settled: fulfilled when the request succeeded, rejected with the store's
\* error when it failed.
C10_FetchSettles ==
  (hist.call = "fetchAll" /\ request.state \in {"success", "error"}) =>
    IF request.state = "success" THEN promise.state = "fulfilled"
    ELSE promise.state = "rejected" /\ promise.reason = "UnknownError"

====
